---------------------------- MODULE Spec2Model ----------------------------
(***************************************************************************)
(* Model of the captioning pipeline: the per-image worker with its bounded *)
(* retry (core/utils.py), the inference client (core/ollama_service.py),   *)
(* the batch orchestrators and the CLI flow (main.py), and the caption     *)
(* cache (core/cache_manager.py).                                          *)
(***************************************************************************)
EXTENDS Integers, Sequences, FiniteSets, TLC

VARIABLES
    \* ---- process and file system of the CLI flow
    run,        \* number of the current CLI invocation (1 = first, 2 = re-run)
    mpc,        \* position of main(): "start", "pool", "seq", and how it ended:
                \* "exit0" (ran to its end), "exit1" (return 1), "crashed"
    ollama,     \* memoized check_ollama_status(): "unknown", "ready", "down"
    args,       \* parsed command line: [parallel, workers, process_amount,
                \* use_cache]
    dirlist,    \* os.listdir("data/source"), in the directory's listing order
    backend,    \* per image file: what the backend does on attempts 1..3
    captions,   \* data/captions: file name -> [val, by] (content, writing image)
    batch,      \* images_to_process / image_files of the orchestrator
    task,       \* per submitted future: [pc, attempt, log, ret]
    successful, \* map_captions_parallel: successful
    failed,     \* map_captions_parallel: failed / map_captions: failed_images
    retval,     \* what the orchestrator returned: [kind, successful, failed]
    seqi,       \* map_captions: index of the next image of the for loop
    called,     \* history: the images get_caption was called for in this run
    startcaps,  \* history: the file names in data/captions when the run began
    prev,       \* history: how the run before this one ended, and its calls
    cachelog,   \* history: the CaptionCache calls main() made in this run
    \* ---- the caption cache and its environment
    now,        \* the clock, in days
    images,     \* per image path: [exists, size, mtime] as os.stat sees it
    entries,    \* data/cache: hash -> [data, mtime], the entry files
    metafile,   \* data/cache/metadata.json: [state, map]
    meta,       \* per CaptionCache instance: [made, metadata]
    last,       \* the cache call that just ended: [op, inst, path, arg, ret, raised]
    nops,       \* number of steps so far that wrote to the cache or to an image
    hist,       \* history: [stored, lastset], what set stored per identity
                \* (path and stat), and the stat each path had at its last set
    \* ---- one get_caption call seen chunk by chunk
    gpc,        \* position of get_caption: "idle", "waiting", "returned", "raised"
    gexc,       \* the exception get_caption raised (None when none)
    elapsed,    \* time.time() - start_time, in seconds
    res,        \* number of chunks appended to res
    stalled,    \* the backend has stopped sending and keeps the stream open
    \* ---- one run of the output parsing step
    pin,        \* the text given to it: [open, body, close]
    pout        \* [by, fenced, clean]: who parsed, the result for the whole
                \* text and the result for its body alone

pvars == <<run, mpc, ollama, args, dirlist, backend, captions, batch, task,
           successful, failed, retval, seqi, called, startcaps, prev, cachelog>>

cvars == <<now, images, entries, metafile, meta, last, nops, hist>>

parsevars == <<pin, pout>>

svars == <<gpc, gexc, elapsed, res, stalled, parsevars>>

vars == <<pvars, cvars, svars>>

-----------------------------------------------------------------------------
(* Bounds of the model *)

MaxImages == 2      \* most image files in data/source
MaxWorkers == 2     \* largest --workers value
MaxOps == 3         \* most steps that change the cache or the image files
MaxChunks == 2      \* most chunks of one generate() stream
MaxWait == 2        \* longest time followed in a get_caption call, in timeouts
MaxLen == 3         \* most tokens between the fences of a parsed text

-----------------------------------------------------------------------------
(* Values *)

None == "None"          \* Python's None
NoValue == "NoValue"    \* a local that is not bound yet

\* json.loads results: the dict {"caption": "x"}, the empty dict, and None
CapObj == "{caption:x}"
EmptyObj == "{}"

\* the orchestrator's return value: not returned yet, None (map_captions),
\* or the dict of map_captions_parallel
NotReturned == [kind |-> "unset", successful |-> 0, failed |-> <<>>]
ReturnedNone == [kind |-> "None", successful |-> 0, failed |-> <<>>]

\* bool(v) as used by "if caption:"
Truthy(v) == v = CapObj

-----------------------------------------------------------------------------
(* File names are sequences of characters *)

a_jpg == <<"a", ".", "j", "p", "g">>
a_png == <<"a", ".", "p", "n", "g">>
x_v1_jpg == <<"x", ".", "v", "1", ".", "j", "p", "g">>
x_v2_jpeg == <<"x", ".", "v", "2", ".", "j", "p", "e", "g">>
notes_txt == <<"n", ".", "t", "x", "t">>

DotPng == <<".", "p", "n", "g">>
DotJpg == <<".", "j", "p", "g">>
DotJpeg == <<".", "j", "p", "e", "g">>
DotJson == <<".", "j", "s", "o", "n">>

\* str.endswith(suffix)
EndsWith(s, suf) ==
    /\ Len(s) >= Len(suf)
    /\ SubSeq(s, Len(s) - Len(suf) + 1, Len(s)) = suf

\* s.split(".")[0]: the text before the first "." (all of s when it has none)
SplitDot0(s) ==
    LET dots == {k \in 1..Len(s) : s[k] = "."}
    IN  IF dots = {} THEN s
        ELSE SubSeq(s, 1, (CHOOSE k \in dots : \A m \in dots : k <= m) - 1)

\* the file name in data/captions written for image img:
\* name = img_path.split(".")[0]; f"data/captions/{name}.json"
CaptionFile(img) == SplitDot0(img) \o DotJson

\* the test of get_image_files on one directory entry
IsImageFile(f) == EndsWith(f, DotPng) \/ EndsWith(f, DotJpg) \/ EndsWith(f, DotJpeg)

\* get_image_files(directory): the entries of the listing that are images
RECURSIVE get_image_files(_)
get_image_files(listing) ==
    IF listing = <<>> THEN <<>>
    ELSE (IF IsImageFile(Head(listing)) THEN <<Head(listing)>> ELSE <<>>)
         \o get_image_files(Tail(listing))

-----------------------------------------------------------------------------
(* Model output text: a sequence of tokens.  FENCE is the three backticks, *)
(* TAG the language tag "json", OTHERTAG another tag, SP a blank, NL a     *)
(* newline; the remaining tokens are a piece of text without blanks:       *)
(* CAP is {"caption": "x"}, EMPTY is {}, NULL is null, BAD is text that is *)
(* not JSON.                                                               *)

FENCE == "FENCE"
TAG == "json"
OTHERTAG == "python"
SP == " "
NL == "NL"

Whitespace == {SP, NL}
JsonTokens == {"CAP", "EMPTY", "NULL"}

\* str.strip(): leading and trailing whitespace removed
RECURSIVE LStrip(_)
LStrip(t) == IF t # <<>> /\ Head(t) \in Whitespace THEN LStrip(Tail(t)) ELSE t

RECURSIVE RStrip(_)
RStrip(t) ==
    IF t # <<>> /\ t[Len(t)] \in Whitespace THEN RStrip(SubSeq(t, 1, Len(t) - 1)) ELSE t

Strip(t) == RStrip(LStrip(t))

\* (mutant) the first re.sub has no "(?:json)?": the tag is left in place
SubOpenFenceKeepsTag(t) == IF t # <<>> /\ Head(t) = FENCE THEN LStrip(Tail(t)) ELSE t

\* the first re.sub of process_single_image (line 33): an opening fence at the very start,
\* its optional json tag and the whitespace after it are removed
SubOpenFence(t) ==
    IF t # <<>> /\ Head(t) = FENCE
    THEN LET r == Tail(t)
         IN  LStrip(IF r # <<>> /\ Head(r) = TAG THEN Tail(r) ELSE r)
    ELSE t

\* the second re.sub of process_single_image (line 34): a fence followed by nothing but whitespace
\* up to the end is removed, with the one newline before it if there is one
SubCloseFence(t) ==
    LET r == RStrip(t)
    IN  IF r # <<>> /\ r[Len(r)] = FENCE
        THEN LET h == SubSeq(r, 1, Len(r) - 1)
             IN  IF h # <<>> /\ h[Len(h)] = NL THEN SubSeq(h, 1, Len(h) - 1) ELSE h
        ELSE t

\* the second re.sub of map_captions (line 69): a fence at the very end (or
\* right before one final newline) is removed with all whitespace before it
SubCloseFenceSeq(t) ==
    LET n == Len(t)
    IN  IF n >= 1 /\ t[n] = FENCE THEN RStrip(SubSeq(t, 1, n - 1))
        ELSE IF n >= 2 /\ t[n] = NL /\ t[n - 1] = FENCE
             THEN RStrip(SubSeq(t, 1, n - 2)) \o <<NL>>
             ELSE t

\* json.loads(t): surrounding whitespace is allowed around exactly one JSON
\* value; anything else raises json.JSONDecodeError
JsonLoads(t) ==
    LET s == Strip(t)
    IN  IF Len(s) = 1 /\ s[1] \in JsonTokens
        THEN [exc |-> None,
              val |-> CASE s[1] = "CAP" -> CapObj
                        [] s[1] = "EMPTY" -> EmptyObj
                        [] OTHER -> None]
        ELSE [exc |-> "JSONDecodeError", val |-> None]

\* lines 31-36 of process_single_image: strip, remove the fences, decode
ParseWorker(raw) == JsonLoads(SubCloseFence(SubOpenFence(Strip(raw))))

\* lines 67-71 of map_captions: the same with its own regular expressions
ParseSequential(raw) == JsonLoads(SubCloseFenceSeq(SubOpenFence(Strip(raw))))

\* the texts the backend is made to return
TextBodies == {<<"CAP">>, <<"EMPTY">>, <<"NULL">>, <<"BAD">>, <<>>, <<"CAP", SP, "CAP">>}
TextOpenings == {<<>>, <<FENCE>>, <<FENCE, TAG>>, <<FENCE, TAG, NL>>, <<FENCE, NL>>,
                 <<FENCE, OTHERTAG, NL>>, <<NL, FENCE, TAG, NL>>}
TextClosings == {<<>>, <<FENCE>>, <<NL, FENCE>>, <<NL, FENCE, NL>>, <<SP, FENCE>>}
Texts == {o \o b \o c : o \in TextOpenings, b \in TextBodies, c \in TextClosings}

\* the texts one parsing step is run on: an opening (nothing, or a fence
\* with or without a tag), a body holding no fence markup, a closing
ParseOpenings == {<<>>, <<FENCE>>, <<FENCE, NL>>, <<FENCE, TAG>>, <<FENCE, TAG, NL>>,
                  <<FENCE, OTHERTAG>>, <<FENCE, OTHERTAG, NL>>}
ParseClosings == {<<>>, <<FENCE>>, <<NL, FENCE>>}
BodyTokens == {SP, NL, "CAP", "EMPTY", "NULL", "BAD"}
ParseBodies == UNION {[1..n -> BodyTokens] : n \in 0..MaxLen}

NoText == [open |-> <<>>, body |-> <<>>, close |-> <<>>]
NoResult == [exc |-> None, val |-> None]
NotParsed == [by |-> "none", fenced |-> NoResult, clean |-> NoResult]

\* the parsing step of process_single_image (lines 31-36) is run on the
\* text and on its body
ParseInWorker ==
    /\ pout.by = "none"
    /\ pout' = [by |-> "worker",
                fenced |-> ParseWorker(pin.open \o pin.body \o pin.close),
                clean |-> ParseWorker(pin.body)]
    /\ UNCHANGED <<pin, pvars, cvars, gpc, gexc, elapsed, res, stalled>>

\* the parsing step of map_captions (lines 67-71) is run on the text and
\* on its body
ParseInSequential ==
    /\ pout.by = "none"
    /\ pout' = [by |-> "sequential",
                fenced |-> ParseSequential(pin.open \o pin.body \o pin.close),
                clean |-> ParseSequential(pin.body)]
    /\ UNCHANGED <<pin, pvars, cvars, gpc, gexc, elapsed, res, stalled>>

NextParse == ParseInWorker \/ ParseInSequential

-----------------------------------------------------------------------------
(* Inference client (core/ollama_service.py) *)

\* What the environment does during one get_caption call: the state of the
\* image file, how the generate() stream ends, and the text it streamed.
Behaviour(file, gen, text) == [file |-> file, gen |-> gen, text |-> text]

FileStates == {"ok", "empty", "unreadable"}
GenEnds == {"complete", "error", "timeout"}

Behaviours ==
    {Behaviour("ok", "complete", t) : t \in Texts}
    \cup {Behaviour(f, "complete", <<"CAP">>) : f \in {"empty", "unreadable"}}
    \cup {Behaviour("ok", g, <<"CAP">>) : g \in {"error", "timeout"}}

\* read_image(file_path): the bytes, or None when reading raised
read_image(file) ==
    CASE file = "unreadable" -> None
      [] file = "empty" -> ""
      [] OTHER -> "bytes"

\* get_caption(img_path) under the memoized health status: the exception it
\* raises (None when it returns) and the text it returns
get_caption(status, b) ==
    IF status # "ready" THEN [exc |-> "ConnectionError", text |-> <<>>]
    ELSE IF read_image(b.file) \in {None, ""} THEN [exc |-> "ValueError", text |-> <<>>]
    ELSE IF b.gen = "timeout" THEN [exc |-> "TimeoutError", text |-> <<>>]
    ELSE IF b.gen = "error" THEN [exc |-> "ResponseError", text |-> <<>>]
    ELSE [exc |-> None, text |-> b.text]


-----------------------------------------------------------------------------
(* get_caption seen chunk by chunk (core/ollama_service.py, lines 51-83) *)

\* the default of the timeout parameter, in seconds
timeout == 30

\* no get_caption call is followed chunk by chunk
StreamIdle ==
    /\ gpc = "idle"
    /\ gexc = None
    /\ elapsed = 0
    /\ res = 0
    /\ stalled = FALSE
    /\ pin = NoText
    /\ pout = NotParsed

\* lines 54-63: the health check, read_image, res = '' and start_time
GcStart(status, file) ==
    /\ gpc = "idle"
    /\ IF status # "ready"
       THEN gpc' = "raised" /\ gexc' = "ConnectionError"
       ELSE IF read_image(file) \in {None, ""}
       THEN gpc' = "raised" /\ gexc' = "ValueError"
       ELSE gpc' = "waiting" /\ gexc' = None
    /\ elapsed' = 0
    /\ res' = 0
    /\ stalled' = FALSE
    /\ UNCHANGED <<pvars, cvars, parsevars>>

\* lines 66-78: generate() yields a chunk; the elapsed time is compared with
\* the timeout here and nowhere else
GcChunk ==
    /\ gpc = "waiting"
    /\ ~stalled
    /\ res < MaxChunks
    /\ IF elapsed > timeout
       THEN gpc' = "raised" /\ gexc' = "TimeoutError" /\ res' = res
       ELSE gpc' = "waiting" /\ gexc' = None /\ res' = res + 1
    /\ UNCHANGED <<elapsed, stalled>>
    /\ UNCHANGED <<pvars, cvars, parsevars>>

\* lines 66 and 83: the stream ends, the for loop is left and res returned
GcEnd ==
    /\ gpc = "waiting"
    /\ ~stalled
    /\ gpc' = "returned"
    /\ UNCHANGED <<gexc, elapsed, res, stalled>>
    /\ UNCHANGED <<pvars, cvars, parsevars>>

\* lines 79-81: generate() raises (connection lost, error response); the
\* exception is printed and raised again
GcError ==
    /\ gpc = "waiting"
    /\ ~stalled
    /\ gpc' = "raised"
    /\ gexc' = "ResponseError"
    /\ UNCHANGED <<elapsed, res, stalled>>
    /\ UNCHANGED <<pvars, cvars, parsevars>>

\* the backend stops sending chunks and keeps the connection open; the
\* generate() call of line 66 is given no timeout of its own
GcStall ==
    /\ gpc = "waiting"
    /\ ~stalled
    /\ stalled' = TRUE
    /\ UNCHANGED <<gpc, gexc, elapsed, res>>
    /\ UNCHANGED <<pvars, cvars, parsevars>>

\* d seconds pass while get_caption waits for the next chunk
GcAdvance(d) ==
    /\ gpc = "waiting"
    /\ elapsed + d <= timeout * MaxWait
    /\ elapsed' = elapsed + d
    /\ UNCHANGED <<gpc, gexc, res, stalled>>
    /\ UNCHANGED <<pvars, cvars, parsevars>>

NextStream ==
    \/ \E status \in {"ready", "down"}, file \in FileStates : GcStart(status, file)
    \/ GcChunk
    \/ GcEnd
    \/ GcError
    \/ GcStall
    \/ \E d \in {1, timeout} : GcAdvance(d)


-----------------------------------------------------------------------------
(* Per-image worker (core/utils.py, process_single_image) *)

max_retries == 3

\* (mutant) the second handler catches ValueError alone
CaughtValueErrorOnly(exc) == exc = "ValueError"

\* the exception classes that "except Exception" catches
CaughtByExceptException(exc) ==
    exc \in {"JSONDecodeError", "ConnectionError", "ValueError", "TimeoutError",
             "ResponseError"}

\* a future of the pool: pc is "queued", "running", "sleeping", "done" (the
\* call returned or raised) or "drained" (the orchestrator consumed it);
\* attempt is the loop variable; log lists what each get_caption call ended
\* with and each time.sleep(1); ret is the returned tuple; raised is the
\* exception that left the function
NoReturn == [img |-> <<>>, caption |-> NoValue]

NewTask(img) ==
    [img |-> img, pc |-> "queued", attempt |-> 0, log |-> <<>>,
     ret |-> NoReturn, raised |-> None]

Returned(t, caption) ==
    [t EXCEPT !.pc = "done", !.ret = [img |-> t.img, caption |-> caption]]

\* (mutant) the retry test reads "attempt < max_retries": the last attempt
\* sleeps too, and the function returns from line 52
WorkerIterationSleepsLast(t, status, b) ==
    LET got == get_caption(status, b)
        parsed == IF got.exc = None THEN ParseWorker(got.text)
                  ELSE [exc |-> got.exc, val |-> None]
        exc == parsed.exc
    IN  IF exc = None
        THEN Returned([t EXCEPT !.log = Append(@, "ok")], parsed.val)
        ELSE [t EXCEPT !.pc = "sleeping", !.log = @ \o <<exc, "sleep">>]

\* (mutant) a read error is not retried: it fails the image at once
WorkerIterationNoReadRetry(t, status, b) ==
    LET got == get_caption(status, b)
        parsed == IF got.exc = None THEN ParseWorker(got.text)
                  ELSE [exc |-> got.exc, val |-> None]
        exc == parsed.exc
    IN  IF exc = None
        THEN Returned([t EXCEPT !.log = Append(@, "ok")], parsed.val)
        ELSE IF exc # "ValueError" /\ t.attempt < max_retries - 1
             THEN [t EXCEPT !.pc = "sleeping", !.log = @ \o <<exc, "sleep">>]
             ELSE Returned([t EXCEPT !.log = Append(@, exc)], None)

\* one iteration of the for loop: lines 27-50 for attempt t.attempt
WorkerIteration(t, status, b) ==
    LET got == get_caption(status, b)
        parsed == IF got.exc = None THEN ParseWorker(got.text)
                  ELSE [exc |-> got.exc, val |-> None]
        exc == parsed.exc
    IN  IF exc = None
        THEN Returned([t EXCEPT !.log = Append(@, "ok")], parsed.val)
        ELSE IF exc = "JSONDecodeError" \/ CaughtByExceptException(exc)
        THEN IF t.attempt < max_retries - 1
             THEN [t EXCEPT !.pc = "sleeping", !.log = @ \o <<exc, "sleep">>]
             ELSE Returned([t EXCEPT !.log = Append(@, exc)], None)
        ELSE [t EXCEPT !.pc = "done", !.log = Append(@, exc), !.raised = exc]

\* the sleep is over: "continue" takes the loop to the next attempt, and
\* line 52 returns when range(max_retries) is used up
WorkerContinue(t) ==
    IF t.attempt + 1 < max_retries
    THEN [t EXCEPT !.pc = "running", !.attempt = @ + 1]
    ELSE Returned([t EXCEPT !.attempt = @ + 1], None)


-----------------------------------------------------------------------------
(* Caption cache (core/cache_manager.py) *)

TTL_DAYS == 30

Paths == {"p.jpg", "q.jpg"}
Instances == {"A", "B"}
Captions == {CapObj, EmptyObj}
Corrupt == "corrupt"    \* file content that is not valid JSON

\* the instants the clock is looked at: an entry written at 0 expires at
\* TTL_DAYS, when one written at 1 is in its last fresh day
Times == {0, 1, TTL_DAYS}

\* os.stat of an image file
Stat(size, mtime) == [exists |-> TRUE, size |-> size, mtime |-> mtime]
Missing == [exists |-> FALSE, size |-> 0, mtime |-> 0]

\* the stats an image file takes: p.jpg is touched (its mtime changes),
\* q.jpg is rewritten in the same instant (its size changes)
StatsOf(p) == IF p = "p.jpg" THEN {Stat(1, 0), Stat(1, 1)} ELSE {Stat(1, 0), Stat(2, 0)}

\* a dict: a function on the set of its keys
EmptyDict == <<>>
DictPut(d, k, v) == [x \in DOMAIN d \cup {k} |-> IF x = k THEN v ELSE d[x]]

\* (mutant) the modification time is left out of the hashed text
FileHashNoMtime(path, st) == <<path, st.size, 0>>

\* _get_file_hash: md5 of f"{file_path}_{size}_{mtime}".  The text determines
\* the three values (size and mtime hold no "_"), and md5 is taken to be
\* free of collisions, so the digest stands for the triple.
FileHash(path, st) == <<path, st.size, st.mtime>>

NoHistory == [stored |-> EmptyDict, lastset |-> [p \in Paths |-> Missing]]

\* the pipeline specifications leave the cache untouched
NoCall == [op |-> "none", inst |-> "A", path |-> "", arg |-> "", ret |-> NoValue,
           raised |-> None]

CacheIdle ==
    /\ now = 0
    /\ images = [p \in Paths |-> Missing]
    /\ entries = EmptyDict
    /\ metafile = [state |-> "missing", map |-> EmptyDict]
    /\ meta = [k \in Instances |-> [made |-> FALSE, metadata |-> EmptyDict]]
    /\ last = NoCall
    /\ nops = 0
    /\ hist = NoHistory

-----------------------------------------------------------------------------
(* What the model draws its inputs from *)

ImageNames == {a_jpg, a_png, x_v1_jpg, x_v2_jpeg}

\* the listing order of data/source (a property of the directory)
ListingOrder == <<a_jpg, notes_txt, a_png, x_v1_jpg, x_v2_jpeg>>

\* the entries of ListingOrder that are in the set d, in that order
Listing(d) == SelectSeq(ListingOrder, LAMBDA f : f \in d)

Always(b) == <<b, b, b>>

\* what the backend is configured to do with one image on attempts 1, 2, 3
GoodScript == Always(Behaviour("ok", "complete", <<FENCE, TAG, NL, "CAP", NL, FENCE>>))
EmptyScript == Always(Behaviour("ok", "complete", <<"EMPTY">>))
MalformedScript == Always(Behaviour("ok", "complete", <<"BAD">>))
FlakyScript == <<Behaviour("ok", "complete", <<FENCE, "BAD">>),
                 Behaviour("ok", "timeout", <<>>),
                 Behaviour("ok", "complete", <<FENCE, NL, "CAP", FENCE>>)>>
Scripts == {GoodScript, EmptyScript, MalformedScript, FlakyScript}

\* a caption file left by an earlier run
OldCaption == [val |-> CapObj, by |-> <<>>, run |-> 0]
InitialCaptionDirs ==
    {<<>>, (CaptionFile(a_jpg) :> OldCaption), (notes_txt :> OldCaption)}

-----------------------------------------------------------------------------
(* CLI flow (main.py) *)

\* lines 50-52: the image files, cut to --process-amount when it is given
AllImages(listing, amount) ==
    LET imgs == get_image_files(listing)
    IN  IF amount # 0 /\ amount < Len(imgs) THEN SubSeq(imgs, 1, amount) ELSE imgs

\* line 61: the base names of the .json files of data/captions
ExistingCaptions(caps) ==
    {SplitDot0(f) : f \in {g \in DOMAIN caps : EndsWith(g, DotJson)}}

\* (mutant) the existing captions are not looked at
ImagesToProcessAll(all, caps) == all

\* lines 57-62: the images still to process
ImagesToProcess(all, caps) ==
    IF DOMAIN caps = {} THEN all
    ELSE SelectSeq(all, LAMBDA img : SplitDot0(img) \notin ExistingCaptions(caps))

\* json.dump(caption, f) into data/captions/{name}.json
WriteCaption(caps, img, val) ==
    LET f == CaptionFile(img)
        rec == [val |-> val, by |-> img, run |-> run]
    IN  [g \in DOMAIN caps \cup {f} |-> IF g = f THEN rec ELSE caps[g]]

\* main() up to the dispatch: the health check (exit status 1 when it fails),
\* the scan of the two directories, and the call of the chosen orchestrator,
\* which for map_captions_parallel submits one future per image
\* lines 86-89 of main(): with --use-cache a CaptionCache is made and asked
\* for its stats once the processing is over; main() makes no other cache
\* call (--clear-cache is not given)
CacheCall(op, img) == [op |-> op, img |-> img]
EndOfMain(log) ==
    IF args.use_cache
    THEN log \o <<CacheCall("init", <<>>), CacheCall("stats", <<>>)>>
    ELSE log

MainStart ==
    /\ mpc = "start"
    /\ \E st \in {"ready", "down"} :
         /\ ollama' = st
         /\ IF st = "down"
            THEN /\ mpc' = "exit1"
                 /\ UNCHANGED <<batch, task, seqi, cachelog>>
            ELSE LET todo == ImagesToProcess(AllImages(dirlist, args.process_amount),
                                             captions)
                 IN  /\ batch' = todo
                     /\ task' = IF args.parallel
                                THEN [i \in 1..Len(todo) |-> NewTask(todo[i])]
                                ELSE <<>>
                     /\ seqi' = 1
                     /\ mpc' = IF todo = <<>> THEN "exit0"
                               ELSE IF args.parallel THEN "pool" ELSE "seq"
                     /\ cachelog' = IF todo = <<>> THEN EndOfMain(cachelog)
                                    ELSE cachelog
    /\ UNCHANGED <<run, args, dirlist, backend, captions, successful, failed, retval,
                   called, startcaps, prev>>
    /\ UNCHANGED <<cvars, svars>>

-----------------------------------------------------------------------------
(* Concurrent orchestrator (core/utils.py, map_captions_parallel) *)

Busy == {j \in DOMAIN task : task[j].pc \in {"running", "sleeping"}}

\* a free pool thread takes the oldest queued future
WorkerStart(i) ==
    /\ mpc = "pool"
    /\ task[i].pc = "queued"
    /\ Cardinality(Busy) < args.workers
    /\ \A j \in 1..(i - 1) : task[j].pc # "queued"
    /\ task' = [task EXCEPT ![i].pc = "running"]
    /\ UNCHANGED <<run, mpc, ollama, args, dirlist, backend, captions, batch,
                   successful, failed, retval, seqi, called, startcaps, prev, cachelog>>
    /\ UNCHANGED <<cvars, svars>>

\* one attempt of process_single_image for future i
WorkerAttempt(i) ==
    /\ mpc = "pool"
    /\ task[i].pc = "running"
    /\ task' = [task EXCEPT ![i] = WorkerIteration(task[i], ollama,
                                       backend[task[i].img][task[i].attempt + 1])]
    /\ called' = called \cup {task[i].img}
    /\ UNCHANGED <<run, mpc, ollama, args, dirlist, backend, captions, batch,
                   successful, failed, retval, seqi, startcaps, prev, cachelog>>
    /\ UNCHANGED <<cvars, svars>>

\* time.sleep(1) of future i returns
WorkerWake(i) ==
    /\ mpc = "pool"
    /\ task[i].pc = "sleeping"
    /\ task' = [task EXCEPT ![i] = WorkerContinue(task[i])]
    /\ UNCHANGED <<run, mpc, ollama, args, dirlist, backend, captions, batch,
                   successful, failed, retval, seqi, called, startcaps, prev, cachelog>>
    /\ UNCHANGED <<cvars, svars>>

\* (mutant) the first failure ends the as_completed loop and the call
DrainBreaksOnFailure(i) ==
    /\ mpc = "pool"
    /\ task[i].pc = "done"
    /\ task' = [task EXCEPT ![i].pc = "drained"]
    /\ IF Truthy(task[i].ret.caption)
       THEN /\ captions' = WriteCaption(captions, task[i].ret.img, task[i].ret.caption)
            /\ successful' = successful + 1
            /\ UNCHANGED <<mpc, failed, retval>>
       ELSE /\ failed' = Append(failed, task[i].ret.img)
            /\ retval' = [kind |-> "dict", successful |-> successful,
                          failed |-> Append(failed, task[i].ret.img)]
            /\ mpc' = "exit0"
            /\ UNCHANGED <<captions, successful>>
    /\ UNCHANGED <<run, ollama, args, dirlist, backend, batch, seqi, called,
                   startcaps, prev, cachelog>>
    /\ UNCHANGED <<cvars, svars>>

\* (mutant) the else branch reads "elif caption is None": a decoded value
\* that is falsy without being None is neither counted nor put in failed
DrainDropsFalsy(i) ==
    /\ mpc = "pool"
    /\ task[i].pc = "done"
    /\ task' = [task EXCEPT ![i].pc = "drained"]
    /\ IF task[i].raised # None
       THEN /\ mpc' = "crashed"
            /\ UNCHANGED <<captions, successful, failed>>
       ELSE IF Truthy(task[i].ret.caption)
       THEN /\ captions' = WriteCaption(captions, task[i].ret.img, task[i].ret.caption)
            /\ successful' = successful + 1
            /\ UNCHANGED <<mpc, failed>>
       ELSE IF task[i].ret.caption = None
       THEN /\ failed' = Append(failed, task[i].ret.img)
            /\ UNCHANGED <<mpc, captions, successful>>
       ELSE UNCHANGED <<mpc, captions, successful, failed>>
    /\ UNCHANGED <<run, ollama, args, dirlist, backend, batch, retval, seqi, called,
                   startcaps, prev, cachelog>>
    /\ UNCHANGED <<cvars, svars>>

\* one iteration of the as_completed loop (lines 107-120) for a finished
\* future: future.result() re-raises what the worker raised; a truthy caption
\* is written and counted, anything else puts the image in failed
Drain(i) ==
    /\ mpc = "pool"
    /\ task[i].pc = "done"
    /\ task' = [task EXCEPT ![i].pc = "drained"]
    /\ IF task[i].raised # None
       THEN /\ mpc' = "crashed"
            /\ UNCHANGED <<captions, successful, failed>>
       ELSE IF Truthy(task[i].ret.caption)
       THEN /\ captions' = WriteCaption(captions, task[i].ret.img, task[i].ret.caption)
            /\ successful' = successful + 1
            /\ UNCHANGED <<mpc, failed>>
       ELSE /\ failed' = Append(failed, task[i].ret.img)
            /\ UNCHANGED <<mpc, captions, successful>>
    /\ UNCHANGED <<run, ollama, args, dirlist, backend, batch, retval, seqi, called,
                   startcaps, prev, cachelog>>
    /\ UNCHANGED <<cvars, svars>>

\* every future was consumed: line 126 returns, and main() runs to its end
PoolReturn ==
    /\ mpc = "pool"
    /\ \A i \in DOMAIN task : task[i].pc = "drained"
    /\ retval' = [kind |-> "dict", successful |-> successful, failed |-> failed]
    /\ mpc' = "exit0"
    /\ cachelog' = EndOfMain(cachelog)
    /\ UNCHANGED <<run, ollama, args, dirlist, backend, captions, batch, task,
                   successful, failed, seqi, called, startcaps, prev>>
    /\ UNCHANGED <<cvars, svars>>

-----------------------------------------------------------------------------
(* Sequential orchestrator (core/utils.py, map_captions) *)

\* what one iteration of map_captions gets for an image: the exception
\* raised inside its try block (None when there is none) and the decoded value
SeqOutcome(img) ==
    LET got == get_caption(ollama, backend[img][1])
    IN  IF got.exc = None THEN ParseSequential(got.text)
        ELSE [exc |-> got.exc, val |-> None]

\* (mutant) the first failure ends the loop
SeqStepStopsAtFailure ==
    /\ mpc = "seq"
    /\ seqi <= Len(batch)
    /\ IF SeqOutcome(batch[seqi]).exc = None
       THEN /\ captions' = WriteCaption(captions, batch[seqi], SeqOutcome(batch[seqi]).val)
            /\ seqi' = seqi + 1
            /\ UNCHANGED failed
       ELSE /\ failed' = Append(failed, batch[seqi])
            /\ seqi' = Len(batch) + 1
            /\ UNCHANGED captions
    /\ called' = called \cup {batch[seqi]}
    /\ UNCHANGED <<run, mpc, ollama, args, dirlist, backend, batch, task, successful,
                   retval, startcaps, prev, cachelog>>
    /\ UNCHANGED <<cvars, svars>>

\* one iteration of the for loop (lines 60-83): a single get_caption call,
\* no retry; the decoded value is written whatever it is
SeqStep ==
    /\ mpc = "seq"
    /\ seqi <= Len(batch)
    /\ LET img == batch[seqi]
           parsed == SeqOutcome(img)
       IN  IF parsed.exc = None
           THEN /\ captions' = WriteCaption(captions, img, parsed.val)
                /\ UNCHANGED failed
           ELSE /\ failed' = Append(failed, img)
                /\ UNCHANGED captions
    /\ called' = called \cup {batch[seqi]}
    /\ seqi' = seqi + 1
    /\ UNCHANGED <<run, mpc, ollama, args, dirlist, backend, batch, task, successful,
                   retval, startcaps, prev, cachelog>>
    /\ UNCHANGED <<cvars, svars>>

\* the loop is over: map_captions returns None, and main() runs to its end
SeqReturn ==
    /\ mpc = "seq"
    /\ seqi > Len(batch)
    /\ retval' = ReturnedNone
    /\ mpc' = "exit0"
    /\ cachelog' = EndOfMain(cachelog)
    /\ UNCHANGED <<run, ollama, args, dirlist, backend, captions, batch, task,
                   successful, failed, seqi, called, startcaps, prev>>
    /\ UNCHANGED <<cvars, svars>>

\* lines 93-94: the exit status of the process.  main() is called as a
\* statement and what it returns is dropped, so the interpreter exits with 0
\* whenever main() returns and with 1 when an exception leaves it.
ExitStatus ==
    CASE mpc \in {"exit0", "exit1"} -> 0
      [] mpc = "crashed" -> 1
      [] OTHER -> NoValue

\* no run came before the first
NoRun == [exit |-> "none", called |-> {}]

\* the first run and the re-run
RunNumbers == {1, 2}

\* the command is run again, as a new process, over the same directories
Rerun ==
    /\ mpc \in {"exit0", "exit1"}
    /\ run + 1 \in RunNumbers
    /\ run' = run + 1
    /\ mpc' = "start"
    /\ ollama' = "unknown"
    /\ batch' = <<>>
    /\ task' = <<>>
    /\ successful' = 0
    /\ failed' = <<>>
    /\ retval' = NotReturned
    /\ seqi' = 1
    /\ called' = {}
    /\ startcaps' = DOMAIN captions
    /\ prev' = [exit |-> mpc, called |-> called]
    /\ cachelog' = <<>>
    /\ UNCHANGED <<args, dirlist, backend, captions>>
    /\ UNCHANGED <<cvars, svars>>

-----------------------------------------------------------------------------
(* The CLI flow, run and run again over one source directory *)

ArgSets ==
    {[parallel |-> p, workers |-> w, process_amount |-> n, use_cache |-> c] :
        p \in BOOLEAN, w \in 1..MaxWorkers, n \in {0, 1}, c \in BOOLEAN}

Init ==
    /\ run = 1
    /\ mpc = "start"
    /\ ollama = "unknown"
    /\ args \in {a \in ArgSets : a.parallel \/ a.workers = 1}
    /\ \E d \in SUBSET ImageNames :
         /\ Cardinality(d) <= MaxImages
         /\ dirlist = Listing(d \cup {notes_txt})
         /\ backend \in {f \in [ImageNames -> Scripts] :
                            \A n \in ImageNames \ d : f[n] = GoodScript}
    /\ captions \in InitialCaptionDirs
    /\ batch = <<>>
    /\ task = <<>>
    /\ successful = 0
    /\ failed = <<>>
    /\ retval = NotReturned
    /\ seqi = 1
    /\ called = {}
    /\ startcaps = DOMAIN captions
    /\ prev = NoRun
    /\ cachelog = <<>>
    /\ CacheIdle
    /\ StreamIdle

Next ==
    \/ MainStart
    \/ \E i \in DOMAIN task : WorkerStart(i)
    \/ \E i \in DOMAIN task : WorkerAttempt(i)
    \/ \E i \in DOMAIN task : WorkerWake(i)
    \/ \E i \in DOMAIN task : Drain(i)
    \/ PoolReturn
    \/ SeqStep
    \/ SeqReturn
    \/ Rerun

Spec == Init /\ [][Next]_vars


-----------------------------------------------------------------------------
(* One direct call of process_single_image, the backend free to end every *)
(* get_caption call in any way                                            *)

\* one attempt; the first get_caption call of the process runs the health
\* check, whose result check_ollama_status memoizes
DirectAttempt ==
    /\ mpc = "worker"
    /\ task[1].pc = "running"
    /\ \E b \in Behaviours :
       \E st \in (IF ollama = "unknown" THEN {"ready", "down"} ELSE {ollama}) :
         /\ ollama' = st
         /\ task' = [task EXCEPT ![1] = WorkerIteration(task[1], st, b)]
    /\ called' = called \cup {task[1].img}
    /\ UNCHANGED <<run, mpc, args, dirlist, backend, captions, batch,
                   successful, failed, retval, seqi, startcaps, prev, cachelog>>
    /\ UNCHANGED <<cvars, svars>>

DirectWake ==
    /\ mpc = "worker"
    /\ task[1].pc = "sleeping"
    /\ task' = [task EXCEPT ![1] = WorkerContinue(task[1])]
    /\ UNCHANGED <<run, mpc, ollama, args, dirlist, backend, captions, batch,
                   successful, failed, retval, seqi, called, startcaps, prev, cachelog>>
    /\ UNCHANGED <<cvars, svars>>

InitWorker ==
    /\ run = 1
    /\ mpc = "worker"
    /\ ollama = "unknown"
    /\ args = [parallel |-> FALSE, workers |-> 1, process_amount |-> 0,
               use_cache |-> FALSE]
    /\ dirlist = <<>>
    /\ backend = <<>>
    /\ captions = <<>>
    /\ batch = <<>>
    /\ \E img \in ImageNames : task = <<[NewTask(img) EXCEPT !.pc = "running"]>>
    /\ successful = 0
    /\ failed = <<>>
    /\ retval = NotReturned
    /\ seqi = 1
    /\ called = {}
    /\ startcaps = {}
    /\ prev = NoRun
    /\ cachelog = <<>>
    /\ CacheIdle
    /\ StreamIdle

NextWorker == DirectAttempt \/ DirectWake

SpecWorker == InitWorker /\ [][NextWorker]_vars


-----------------------------------------------------------------------------
(* CaptionCache operations, and what its environment does between them *)

Call(op, k, p, arg, ret, raised) ==
    [op |-> op, inst |-> k, path |-> p, arg |-> arg, ret |-> ret, raised |-> raised]

\* (mutant) the handler of get catches OSError and its subclasses alone
CaughtOSErrorOnly(exc) == exc \in {"FileNotFoundError", "PermissionError", "OSError"}

\* what "except Exception" of get and set catches
CaughtInCache(exc) ==
    exc \in {"FileNotFoundError", "PermissionError", "OSError", "JSONDecodeError"}

\* (mutant) the freshness test reads "cache_age <= timedelta(days=30)"
GetBodyInclusive(p, unreadable) ==
    IF ~images[p].exists THEN [exc |-> "FileNotFoundError", val |-> None]
    ELSE LET h == FileHash(p, images[p])
         IN  IF h \notin DOMAIN entries THEN [exc |-> None, val |-> None]
             ELSE IF ~(now - entries[h].mtime <= TTL_DAYS) THEN [exc |-> None, val |-> None]
             ELSE IF unreadable THEN [exc |-> "PermissionError", val |-> None]
             ELSE IF entries[h].data = Corrupt THEN [exc |-> "JSONDecodeError", val |-> None]
             ELSE [exc |-> None, val |-> entries[h].data]

\* lines 42-50 and 53 of get: the exception raised inside the try block
\* (None when there is none) and the value returned
GetBody(p, unreadable) ==
    IF ~images[p].exists THEN [exc |-> "FileNotFoundError", val |-> None]
    ELSE LET h == FileHash(p, images[p])
         IN  IF h \notin DOMAIN entries THEN [exc |-> None, val |-> None]
             ELSE IF ~(now - entries[h].mtime < TTL_DAYS) THEN [exc |-> None, val |-> None]
             ELSE IF unreadable THEN [exc |-> "PermissionError", val |-> None]
             ELSE IF entries[h].data = Corrupt THEN [exc |-> "JSONDecodeError", val |-> None]
             ELSE [exc |-> None, val |-> entries[h].data]

\* CaptionCache.get(image_path); unreadable: the entry file of the image
\* exists and opening it fails
Get(k, p, unreadable) ==
    /\ last = NoCall
    /\ meta[k].made
    /\ unreadable => images[p].exists /\ FileHash(p, images[p]) \in DOMAIN entries
    /\ LET b == GetBody(p, unreadable)
       IN  last' = IF b.exc = None THEN Call("get", k, p, unreadable, b.val, None)
                   ELSE IF CaughtInCache(b.exc) THEN Call("get", k, p, unreadable, None, None)
                   ELSE Call("get", k, p, unreadable, NoValue, b.exc)
    /\ UNCHANGED <<now, images, entries, metafile, meta, nops, hist>>
    /\ UNCHANGED <<pvars, svars>>

\* CaptionCache.set(image_path, caption); fail names the file whose opening
\* for writing fails: "none", "entry" or "index"
Set(k, p, c, fail) ==
    /\ last = NoCall
    /\ meta[k].made
    /\ LET exc == IF ~images[p].exists THEN "FileNotFoundError"
                  ELSE IF fail # "none" THEN "OSError" ELSE None
           h == FileHash(p, images[p])
           newmeta == DictPut(meta[k].metadata, p, [hash |-> h, cached_at |-> now])
       IN  /\ entries' = IF images[p].exists /\ fail # "entry"
                         THEN DictPut(entries, h, [data |-> c, mtime |-> now])
                         ELSE entries
           /\ meta' = IF images[p].exists /\ fail # "entry"
                      THEN [meta EXCEPT ![k].metadata = newmeta]
                      ELSE meta
           /\ metafile' = IF exc = None THEN [state |-> "ok", map |-> newmeta]
                          ELSE metafile
           /\ last' = IF exc = None \/ CaughtInCache(exc)
                      THEN Call("set", k, p, c, IF exc = None THEN "stored" ELSE "dropped", None)
                      ELSE Call("set", k, p, c, NoValue, exc)
    /\ hist' = IF images[p].exists /\ fail # "entry"
               THEN [stored |-> DictPut(hist.stored, <<p, images[p]>>,
                                        [caption |-> c, time |-> now]),
                     lastset |-> [hist.lastset EXCEPT ![p] = images[p]]]
               ELSE hist
    /\ UNCHANGED <<now, images>>
    /\ nops < MaxOps
    /\ nops' = IF images[p].exists /\ fail # "entry" THEN nops + 1 ELSE nops
    /\ UNCHANGED <<pvars, svars>>

\* (mutant) clear leaves the index file as it was
ClearedIndexKept(old) == old

\* lines 77-78 of clear: the index file after the empty index is saved
ClearedIndex(old) == [state |-> "ok", map |-> EmptyDict]

\* CaptionCache.clear(): every *.json of the cache directory is unlinked
\* (metadata.json among them), the index is emptied and saved again.  fail
\* names the step that fails: "none", "unlink" (the first unlink raises) or
\* "index" (opening the index file for writing raises); neither is in a try
\* block.
Clear(k, fail) ==
    /\ last = NoCall
    /\ meta[k].made
    /\ fail = "unlink" => (entries # EmptyDict \/ metafile.state # "missing")
    /\ IF fail = "unlink"
       THEN /\ last' = Call("clear", k, "", fail, NoValue, "PermissionError")
            /\ UNCHANGED <<entries, meta, metafile, hist>>
       ELSE /\ entries' = EmptyDict
            /\ meta' = [meta EXCEPT ![k].metadata = EmptyDict]
            /\ hist' = NoHistory
            /\ IF fail = "index"
               THEN /\ metafile' = [state |-> "missing", map |-> EmptyDict]
                    /\ last' = Call("clear", k, "", fail, NoValue, "OSError")
               ELSE /\ metafile' = ClearedIndex(metafile)
                    /\ last' = Call("clear", k, "", fail, None, None)
    /\ UNCHANGED <<now, images>>
    /\ nops < MaxOps
    /\ nops' = nops + 1
    /\ UNCHANGED <<pvars, svars>>

\* CaptionCache(): the index file is loaded when it exists; open raises out
\* of the constructor when the file cannot be read, json.load when it is not
\* valid JSON
Construct(k, unreadable) ==
    /\ last = NoCall
    /\ ~meta[k].made
    /\ unreadable => metafile.state # "missing"
    /\ IF unreadable
       THEN /\ last' = Call("init", k, "", unreadable, NoValue, "PermissionError")
            /\ UNCHANGED meta
       ELSE IF metafile.state = Corrupt
       THEN /\ last' = Call("init", k, "", unreadable, NoValue, "JSONDecodeError")
            /\ UNCHANGED meta
       ELSE /\ meta' = [meta EXCEPT ![k] = [made |-> TRUE, metadata |-> metafile.map]]
            /\ last' = Call("init", k, "", unreadable, None, None)
    /\ UNCHANGED <<now, images, entries, metafile, hist>>
    /\ nops < MaxOps
    /\ nops' = nops + 1
    /\ UNCHANGED <<pvars, svars>>

\* the caller takes the result of the call
Return ==
    /\ last # NoCall
    /\ last' = NoCall
    /\ UNCHANGED <<now, images, entries, metafile, meta, nops, hist>>
    /\ UNCHANGED <<pvars, svars>>

\* time passes
Tick(t) ==
    /\ last = NoCall
    /\ t > now
    /\ now' = t
    /\ last' = NoCall
    /\ UNCHANGED <<images, entries, metafile, meta, nops, hist>>
    /\ UNCHANGED <<pvars, svars>>

\* an image file is written, touched or restored: its size or mtime changes
Touch(p, st) ==
    /\ last = NoCall
    /\ images[p] # st
    /\ images' = [images EXCEPT ![p] = st]
    /\ last' = NoCall
    /\ UNCHANGED <<now, entries, metafile, meta, hist>>
    /\ nops < MaxOps
    /\ nops' = nops + 1
    /\ UNCHANGED <<pvars, svars>>

\* the index file is damaged (a writer died while writing it)
CorruptIndex ==
    /\ last = NoCall
    /\ metafile.state = "ok"
    /\ metafile' = [state |-> Corrupt, map |-> EmptyDict]
    /\ last' = NoCall
    /\ UNCHANGED <<now, images, entries, meta, hist>>
    /\ nops < MaxOps
    /\ nops' = nops + 1
    /\ UNCHANGED <<pvars, svars>>

\* an entry file is damaged
CorruptEntry(h) ==
    /\ last = NoCall
    /\ entries[h].data # Corrupt
    /\ entries' = [entries EXCEPT ![h].data = Corrupt]
    /\ last' = NoCall
    /\ UNCHANGED <<now, images, metafile, meta, hist>>
    /\ nops < MaxOps
    /\ nops' = nops + 1
    /\ UNCHANGED <<pvars, svars>>

\* CaptionCache.stats(): the number of *.json files of the cache directory,
\* metadata.json not counted
stats == [cached_items |-> Cardinality(DOMAIN entries)]

PipelineIdle ==
    /\ run = 1
    /\ mpc = "cache"
    /\ ollama = "unknown"
    /\ args = [parallel |-> FALSE, workers |-> 1, process_amount |-> 0,
               use_cache |-> FALSE]
    /\ dirlist = <<>>
    /\ backend = <<>>
    /\ captions = <<>>
    /\ batch = <<>>
    /\ task = <<>>
    /\ successful = 0
    /\ failed = <<>>
    /\ retval = NotReturned
    /\ seqi = 1
    /\ called = {}
    /\ startcaps = {}
    /\ prev = NoRun
    /\ cachelog = <<>>

\* an entry an earlier process stored for p.jpg, with its line of the index
OldKey == <<"p.jpg", Stat(1, 0)>>
OldEntries == (FileHash("p.jpg", Stat(1, 0)) :> [data |-> CapObj, mtime |-> 0])
OldIndex == ("p.jpg" :> [hash |-> FileHash("p.jpg", Stat(1, 0)), cached_at |-> 0])

\* instance A exists; the cache directory is empty, or holds what an earlier
\* process left in it
InitCache ==
    /\ PipelineIdle
    /\ StreamIdle
    /\ now = 0
    /\ images = [p \in Paths |-> Stat(1, 0)]
    /\ \/ /\ entries = EmptyDict
          /\ metafile = [state |-> "missing", map |-> EmptyDict]
          /\ hist = NoHistory
       \/ /\ entries = OldEntries
          /\ metafile = [state |-> "ok", map |-> OldIndex]
          /\ hist = [stored |-> (OldKey :> [caption |-> CapObj, time |-> 0]),
                     lastset |-> [NoHistory.lastset EXCEPT !["p.jpg"] = Stat(1, 0)]]
    /\ meta = [k \in Instances |->
                 [made |-> k = "A",
                  metadata |-> IF k = "A" THEN metafile.map ELSE EmptyDict]]
    /\ last = NoCall
    /\ nops = 0

NextCache ==
    \/ \E k \in Instances, p \in Paths, u \in BOOLEAN : Get(k, p, u)
    \/ \E k \in Instances, p \in Paths, c \in Captions,
          f \in {"none", "entry", "index"} : Set(k, p, c, f)
    \/ \E k \in Instances, f \in {"none", "unlink", "index"} : Clear(k, f)
    \/ \E k \in Instances, u \in BOOLEAN : Construct(k, u)
    \/ Return
    \/ \E t \in Times : Tick(t)
    \/ \E p \in Paths : \E st \in StatsOf(p) \cup {Missing} : Touch(p, st)
    \/ \E h \in DOMAIN entries : CorruptEntry(h)
    \/ CorruptIndex

SpecCache == InitCache /\ [][NextCache]_vars


-----------------------------------------------------------------------------
(* One get_caption call followed chunk by chunk, nothing else running *)

InitStream ==
    /\ PipelineIdle
    /\ CacheIdle
    /\ StreamIdle

SpecStream == InitStream /\ [][NextStream]_vars


-----------------------------------------------------------------------------
(* One run of the output parsing step on one text *)

InitParse ==
    /\ PipelineIdle
    /\ CacheIdle
    /\ gpc = "idle"
    /\ gexc = None
    /\ elapsed = 0
    /\ res = 0
    /\ stalled = FALSE
    /\ pin \in [open : ParseOpenings, body : ParseBodies, close : ParseClosings]
    /\ pout = NotParsed

SpecParse == InitParse /\ [][NextParse]_vars

-----------------------------------------------------------------------------
(* Properties of the per-image worker *)

IsPrefix(s, t) == Len(s) <= Len(t) /\ SubSeq(t, 1, Len(s)) = s

Finished(t) == t.pc \in {"done", "drained"}

\* the get_caption calls of a task: its log without the sleeps
CallsOf(t) == SelectSeq(t.log, LAMBDA e : e # "sleep")

OnlyDecodeErrors(t) == \A k \in DOMAIN t.log : t.log[k] \in {"JSONDecodeError", "sleep"}

ThreeDecodeErrors ==
    <<"JSONDecodeError", "sleep", "JSONDecodeError", "sleep", "JSONDecodeError">>

\* C1: a process_single_image call whose attempts all end in a JSON decode
\* error calls get_caption exactly 3 times, sleeps between consecutive
\* attempts and not after the last one, and then returns (img_path, None):
\* its log is a prefix of call, sleep, call, sleep, call all along, and it has
\* returned exactly when that log is complete.
C1_RetryBound ==
    \A i \in DOMAIN task :
        LET t == task[i]
        IN  OnlyDecodeErrors(t) =>
              /\ IsPrefix(t.log, ThreeDecodeErrors)
              /\ Finished(t) <=> t.log = ThreeDecodeErrors
              /\ Finished(t) => /\ t.ret = [img |-> t.img, caption |-> None]
                                /\ t.raised = None
                                /\ Len(CallsOf(t)) = 3

C1_Witness ==
    \E i \in DOMAIN task :
        /\ task[i].pc = "done"
        /\ task[i].log = ThreeDecodeErrors
        /\ task[i].ret = [img |-> task[i].img, caption |-> None]

\* C3: process_single_image never raises to its caller: whatever its
\* get_caption calls and the decoding ended with, no exception leaves it, and
\* once it has ended it has returned (img_path, caption) or (img_path, None)
\* for its own image.
C3_NeverRaises ==
    \A i \in DOMAIN task :
        LET t == task[i]
        IN  /\ t.raised = None
            /\ Finished(t) =>
                 /\ t.ret.img = t.img
                 /\ t.ret.caption \in {CapObj, EmptyObj, None}
                 /\ t.ret.caption # None => t.log[Len(t.log)] = "ok"

C3_Witness ==
    \E i \in DOMAIN task :
        /\ task[i].pc = "done"
        /\ task[i].log = <<"TimeoutError", "sleep", "ValueError", "sleep", "ResponseError">>
        /\ task[i].ret = [img |-> task[i].img, caption |-> None]

\* C4 as claimed: when get_caption raises the read error, the worker makes
\* exactly one attempt, does not sleep, and returns FAILURE at once.
C4_ReadErrorNotRetried ==
    \A i \in DOMAIN task :
        LET t == task[i]
        IN  (t.log # <<>> /\ t.log[1] = "ValueError") =>
              /\ t.log = <<"ValueError">>
              /\ Finished(t)
              /\ t.ret = [img |-> t.img, caption |-> None]

\* C4 as amended: a read error is retried like any other error.  After a
\* read error on the first or second attempt the worker sleeps and goes on
\* to the next attempt; only a read error on the third attempt ends the call,
\* with (img_path, None).
C4_ReadErrorRetried ==
    \A i \in DOMAIN task :
        LET t == task[i]
        IN  \A k \in DOMAIN t.log :
              t.log[k] = "ValueError" =>
                IF k < 2 * max_retries - 1
                THEN /\ Len(t.log) > k
                     /\ t.log[k + 1] = "sleep"
                     /\ Len(t.log) = k + 1 => t.pc \in {"sleeping", "running"}
                ELSE /\ Len(t.log) = k
                     /\ Finished(t)
                     /\ t.ret = [img |-> t.img, caption |-> None]

C4_Witness ==
    \E i \in DOMAIN task :
        /\ task[i].pc = "done"
        /\ task[i].log = <<"ValueError", "sleep", "ValueError", "sleep", "ValueError">>
        /\ task[i].ret = [img |-> task[i].img, caption |-> None]


-----------------------------------------------------------------------------
(* Properties of the orchestrators and of the CLI flow *)

Range(q) == {q[k] : k \in DOMAIN q}

\* the caption process_single_image returns for an image when its attempts
\* meet the backend's script for that image, whatever else runs meanwhile
RECURSIVE RunWorker(_, _)
RunWorker(t, script) ==
    IF t.pc = "done" THEN t
    ELSE IF t.pc = "sleeping" THEN RunWorker(WorkerContinue(t), script)
    ELSE RunWorker(WorkerIteration(t, "ready", script[t.attempt + 1]), script)

Outcome(img) == RunWorker([NewTask(img) EXCEPT !.pc = "running"], backend[img]).ret.caption

ParsedOk(t) == t.log # <<>> /\ t.log[Len(t.log)] = "ok"

\* C2 as claimed: when map_captions_parallel has returned for a batch in
\* which exactly one image failed parsing on all three attempts and every
\* other image was parsed successfully, successful is N-1, failed is that one
\* image, every other image has its caption file written in this run, and
\* the failing image has no caption file.
C2_PartialFailureIsolation ==
    retval.kind = "dict" =>
      \A j \in DOMAIN task :
        (/\ task[j].log = ThreeDecodeErrors
         /\ \A i \in DOMAIN task \ {j} : ParsedOk(task[i]))
        => /\ retval.successful = Len(batch) - 1
           /\ retval.failed = <<task[j].img>>
           /\ \A i \in DOMAIN task \ {j} :
                /\ CaptionFile(task[i].img) \in DOMAIN captions
                /\ captions[CaptionFile(task[i].img)].run = run
           /\ CaptionFile(task[j].img) \notin DOMAIN captions

\* C5 as claimed: two different images of a batch whose captions were both
\* written have different caption file names, and the file written for an
\* image still holds that image's caption.
C5_UniqueCaptionFiles ==
    \A i, j \in DOMAIN task :
        (/\ task[i].img # task[j].img
         /\ task[i].pc = "drained" /\ Truthy(task[i].ret.caption)
         /\ task[j].pc = "drained" /\ Truthy(task[j].ret.caption))
        => /\ CaptionFile(task[i].img) # CaptionFile(task[j].img)
           /\ captions[CaptionFile(task[i].img)].by = task[i].img

\* C6: the result of map_captions_parallel is a function of the per-image
\* outcomes alone: under every interleaving and completion order successful
\* is the number of images whose outcome is a truthy caption and failed holds
\* exactly the other images, each once.
C6_OrderIndependent ==
    retval.kind = "dict" =>
      LET good == {i \in DOMAIN batch : Truthy(Outcome(batch[i]))}
          bad == DOMAIN batch \ good
      IN  /\ retval.successful = Cardinality(good)
          /\ Range(retval.failed) = {batch[i] : i \in bad}
          /\ Len(retval.failed) = Cardinality(bad)

\* two images failed and were drained in the reverse of their input order
C6_Witness ==
    /\ retval.kind = "dict"
    /\ Len(batch) >= 2
    /\ retval.failed = <<batch[2], batch[1]>>

\* C7 as claimed: only images without a caption file are handed to
\* inference, and a second run after a completed first run makes no
\* inference call at all.
C7_SecondRunSkipsAll ==
    /\ \A img \in called : CaptionFile(img) \notin startcaps
    /\ (run = 2 /\ prev.exit = "exit0") => called = {}

\* C7 as amended: only images without a caption file are handed to
\* inference; a run that passes the health check and ends has called
\* inference for exactly the images to process that had no caption file when
\* it began, so a second run re-dispatches exactly the images the first run
\* left without a caption file and makes no call only when there is none.
C7_RerunDispatchesMissing ==
    LET all == Range(AllImages(dirlist, args.process_amount))
    IN  /\ \A img \in called : img \in all /\ CaptionFile(img) \notin startcaps
        /\ (mpc = "exit0" /\ ollama = "ready") =>
              called = {img \in all : CaptionFile(img) \notin startcaps}

\* a second run that skipped an image captioned by the first run and called
\* inference again for one the first run left without a caption file
C7_Witness ==
    /\ run = 2
    /\ mpc = "exit0"
    /\ prev.exit = "exit0"
    /\ called # {}
    /\ called \subseteq prev.called
    /\ \E img \in prev.called \ called :
         /\ CaptionFile(img) \in startcaps
         /\ captions[CaptionFile(img)].run = 1


-----------------------------------------------------------------------------
(* Properties of CaptionCache *)

\* no entry file of the cache directory is damaged
NoDamage == \A h \in DOMAIN entries : entries[h].data \in Captions

\* the identity (path and stat) the image of a get call has
KeyOf(c) == <<c.path, images[c.path]>>

\* C8: for an entry written by set at time T for an image file not modified
\* afterwards, get returns the cached caption at every query time in
\* [T, T+30 days) and returns None at every query time >= T+30 days, and
\* after the get call the entry file, expired or not, is still stored with
\* the caption set wrote.
C8_Freshness ==
    (/\ last.op = "get"
     /\ images[last.path].exists
     /\ hist.lastset[last.path] = images[last.path]
     /\ ~last.arg
     /\ NoDamage)
    => LET e == hist.stored[KeyOf(last)]
           h == FileHash(last.path, images[last.path])
       IN  /\ last.raised = None
           /\ now >= e.time
           /\ last.ret = IF now < e.time + 30 THEN e.caption ELSE None
           /\ h \in DOMAIN entries
           /\ entries[h].data = e.caption

\* a get, 30 days or more after the set, of an intact entry whose image was
\* not modified: it returned None and the entry file is still there
C8_Witness ==
    /\ last.op = "get"
    /\ last.ret = None
    /\ ~last.arg
    /\ images[last.path].exists
    /\ hist.lastset[last.path] = images[last.path]
    /\ now >= hist.stored[KeyOf(last)].time + 30
    /\ FileHash(last.path, images[last.path]) \in DOMAIN entries
    /\ entries[FileHash(last.path, images[last.path])].data = hist.stored[KeyOf(last)].caption

\* C9 as stated: the identity hash is the same for the same path, size and
\* mtime and differs when size or mtime differ; every entry set stored
\* remains under the hash of the identity it was stored for; a get of a
\* path whose file is as it was at its last set returns the caption of that
\* set (fresh, intact, readable entry); a get of a path whose size or mtime
\* differ from what they were at its last set returns None.
C9_AbsentUntilNewSet ==
    /\ \A p \in Paths : \A s1, s2 \in StatsOf(p) :
         (FileHash(p, s1) = FileHash(p, s2)) <=> (s1 = s2)
    /\ \A key \in DOMAIN hist.stored :
         FileHash(key[1], key[2]) \in DOMAIN entries
    /\ (last.op = "get" /\ hist.lastset[last.path].exists /\ images[last.path].exists)
       => IF images[last.path] = hist.lastset[last.path]
          THEN (~last.arg /\ NoDamage /\ now < hist.stored[KeyOf(last)].time + TTL_DAYS)
               => last.ret = hist.stored[KeyOf(last)].caption
          ELSE last.ret = None

\* C9 as amended: the identity hash is the same for the same path, size and
\* mtime and differs when size or mtime differ; every entry set stored
\* remains, with its write time, under the hash of the identity it was
\* stored for; a get returns the caption last stored for the identity the
\* file has now, when there is one and it is fresh, and None otherwise. So
\* after a change get returns None unless an entry is stored under the new
\* identity: by a new set, or by an earlier set made while the file had that
\* same size and mtime.
C9_KeyedByIdentity ==
    /\ \A p \in Paths : \A s1, s2 \in StatsOf(p) :
         (FileHash(p, s1) = FileHash(p, s2)) <=> (s1 = s2)
    /\ \A key \in DOMAIN hist.stored :
         LET h == FileHash(key[1], key[2])
         IN  /\ h \in DOMAIN entries
             /\ entries[h].mtime = hist.stored[key].time
             /\ entries[h].data \in {hist.stored[key].caption, Corrupt}
    /\ (last.op = "get" /\ images[last.path].exists /\ ~last.arg /\ NoDamage)
       => last.ret = IF /\ KeyOf(last) \in DOMAIN hist.stored
                        /\ now < hist.stored[KeyOf(last)].time + TTL_DAYS
                     THEN hist.stored[KeyOf(last)].caption
                     ELSE None

\* a get that returned a caption although the size or mtime of the file
\* differ from what they were at the last set of the path: the file is back
\* at a size and mtime it was cached under earlier
C9_Witness ==
    /\ last.op = "get"
    /\ last.ret \in Captions
    /\ images[last.path].exists
    /\ hist.lastset[last.path].exists
    /\ hist.lastset[last.path] # images[last.path]
    /\ FileHash(last.path, hist.lastset[last.path]) \in DOMAIN entries

\* the lookup of a get call fails: the image file is missing, the entry file
\* cannot be opened, or the entry file is not valid JSON
LookupFails(c) ==
    \/ ~images[c.path].exists
    \/ c.arg
    \/ /\ FileHash(c.path, images[c.path]) \in DOMAIN entries
       /\ entries[FileHash(c.path, images[c.path])].data = Corrupt

\* C10: get is total: every get call raises nothing, returns a caption or
\* None, returns None whenever the lookup fails (image file missing, entry
\* file unreadable, entry file not valid JSON), and leaves the entry files,
\* the index file and the in-memory index unchanged.
C10_GetTotal ==
    [][ last'.op = "get"
        => /\ last'.raised = None
           /\ last'.ret \in Captions \cup {None}
           /\ LookupFails(last') => last'.ret = None
           /\ entries' = entries
           /\ metafile' = metafile
           /\ meta' = meta ]_vars

\* a get whose json.load failed on a fresh, damaged entry file: it returned
\* None and raised nothing
C10_Witness ==
    /\ last.op = "get"
    /\ last.ret = None
    /\ last.raised = None
    /\ ~last.arg
    /\ images[last.path].exists
    /\ FileHash(last.path, images[last.path]) \in DOMAIN entries
    /\ entries[FileHash(last.path, images[last.path])].data = Corrupt
    /\ now < entries[FileHash(last.path, images[last.path])].mtime + TTL_DAYS


\* C11: no CaptionCache operation (construction, get, set, clear) raises to
\* its caller, and a construction always yields an instance (with the empty
\* index when the index file is missing, unreadable or not valid JSON).
C11_NonFatal ==
    /\ last.raised = None
    /\ last.op = "init" => meta[last.inst].made

\* C12: after a clear() that ran to its end, whatever was set before, no
\* entry file remains, the in-memory index of the instance and the index
\* file are both the empty mapping, stats() reports 0 cached items and get
\* returns None for every image path, readable entry or not.
C12_ClearEmpties ==
    (last.op = "clear" /\ last.raised = None)
    => /\ entries = EmptyDict
       /\ meta[last.inst].metadata = EmptyDict
       /\ metafile = [state |-> "ok", map |-> EmptyDict]
       /\ stats.cached_items = 0
       /\ \A p \in Paths, u \in BOOLEAN : GetBody(p, u).val = None

\* a clear() of instance A that ran to its end while instance B holds a
\* mapping in its in-memory index
C12_Witness ==
    /\ last.op = "clear"
    /\ last.raised = None
    /\ last.inst = "A"
    /\ meta["B"].metadata # EmptyDict
    /\ entries = EmptyDict
    /\ metafile.map = EmptyDict


\* C19: every set call that stores starts from the index as it is persisted:
\* every mapping of another path that the index file holds before the call
\* (persisted by this or by another instance) still has a mapping in the
\* index file after the call; no persisted mapping is lost.
C19_NoPersistedMappingLost ==
    [][ (last'.op = "set" /\ last'.ret = "stored")
        => \A q \in DOMAIN metafile.map : q \in DOMAIN metafile'.map ]_vars


-----------------------------------------------------------------------------
(* Properties of get_caption *)

\* C13: get_caption enforces its timeout from request start: it never
\* returns the text of a stream that completed after the timeout had been
\* exceeded, and it is never left waiting, the timeout exceeded, on a
\* backend that has stopped sending chunks.
C13_TimeoutEnforced ==
    /\ gpc = "returned" => elapsed <= timeout
    /\ ~(gpc = "waiting" /\ stalled /\ elapsed > timeout)


-----------------------------------------------------------------------------
(* Properties of the CLI flow *)

\* C14: when the startup health check reports not-ready the process does no
\* image processing (no inference call, no caption written, nothing
\* dispatched) and exits with a non-zero status; when the check passes the
\* process is never ended by an image's failure and ends having run main()
\* to its end.
C14_ExitBehaviour ==
    /\ (ollama = "down" /\ mpc # "start")
       => /\ mpc = "exit1"
          /\ called = {}
          /\ batch = <<>>
          /\ DOMAIN captions = startcaps
          /\ ExitStatus # 0
    /\ (ollama = "ready" /\ mpc \notin {"start", "pool", "seq"})
       => mpc = "exit0" /\ ExitStatus = 0

\* C15: with --use-cache, when a run that passed the health check has ended,
\* the flow has consulted the cache (get) for every pending image, and has
\* stored (set) the caption of every image it captioned in this run.
C15_CacheConsulted ==
    (args.use_cache /\ ollama = "ready" /\ mpc = "exit0")
    => \A img \in Range(batch) :
         /\ CacheCall("get", img) \in Range(cachelog)
         /\ (/\ CaptionFile(img) \in DOMAIN captions
             /\ captions[CaptionFile(img)].by = img
             /\ captions[CaptionFile(img)].run = run)
            => CacheCall("set", img) \in Range(cachelog)


-----------------------------------------------------------------------------
(* Properties of the output parsing step *)

\* the parsed text is its body wrapped in a leading and a trailing fence
Fenced == pin.open # <<>> /\ pin.close # <<>>

\* the opening fence carries a language tag other than json
OtherTagged == \E k \in DOMAIN pin.open : pin.open[k] = OTHERTAG

\* C16 as claimed: for every body that decodes as JSON, parsing the body
\* wrapped in a leading and a trailing fence, whatever language tag the
\* opening fence carries or none, gives what parsing the body alone gives;
\* parsing a fenced body that does not decode fails with JSONDecodeError.
C16_FenceInsensitive ==
    (pout.by # "none" /\ Fenced)
    => IF pout.clean.exc = None
       THEN pout.fenced = pout.clean
       ELSE pout.fenced.exc = "JSONDecodeError"

\* C16 as amended: for every body that decodes as JSON, parsing the body
\* wrapped in a leading and a trailing fence, the opening fence bare or
\* tagged json, gives what parsing the body alone gives; parsing a fenced
\* body that does not decode fails with JSONDecodeError, and so does parsing
\* any body behind an opening fence that carries another language tag.
C16_JsonFenceInsensitive ==
    (pout.by # "none" /\ Fenced)
    => IF pout.clean.exc = None /\ ~OtherTagged
       THEN pout.fenced = pout.clean
       ELSE pout.fenced.exc = "JSONDecodeError"

\* map_captions parsed a caption between a fence tagged json and a closing
\* fence, each on a line of its own, and got the caption of the body
C16_Witness ==
    /\ pout.by = "sequential"
    /\ pin.open = <<FENCE, TAG, NL>>
    /\ pin.close = <<NL, FENCE>>
    /\ Len(pin.body) = MaxLen
    /\ pout.fenced = [exc |-> None, val |-> CapObj]
    /\ pout.clean = pout.fenced


-----------------------------------------------------------------------------
(* Properties of the sequential orchestrator and of the two modes *)

\* the run is in map_captions or has come out of it
InSequential == ~args.parallel /\ ollama = "ready" /\ batch # <<>>

\* C17: map_captions takes the images one at a time in input order: at
\* every point the images handed to inference are the first seqi - 1 of the
\* input, each of them whose output decoded has its caption file written
\* already (before the next image is started), failed holds exactly the
\* others, in input order, and map_captions returns only when every image
\* of the input was taken, whatever failed before it.
C17_SequentialOrder ==
    InSequential
    => LET done == SubSeq(batch, 1, seqi - 1)
       IN  /\ seqi \in 1..(Len(batch) + 1)
           /\ called = Range(done)
           /\ failed = SelectSeq(done, LAMBDA img : SeqOutcome(img).exc # None)
           /\ \A k \in DOMAIN done :
                SeqOutcome(done[k]).exc = None
                => /\ CaptionFile(done[k]) \in DOMAIN captions
                   /\ captions[CaptionFile(done[k])].run = run
           /\ mpc = "exit0" => seqi = Len(batch) + 1 /\ retval = ReturnedNone

\* a sequential run over two images has ended: the first failed, the second
\* was captioned after it
C17_Witness ==
    /\ InSequential
    /\ mpc = "exit0"
    /\ Len(batch) = 2
    /\ failed = <<batch[1]>>
    /\ CaptionFile(batch[2]) \in DOMAIN captions
    /\ captions[CaptionFile(batch[2])].by = batch[2]
    /\ captions[CaptionFile(batch[2])].run = run

\* C18: sequential mode puts each image through the per-image worker: when
\* map_captions has returned, every image that the worker, with its three
\* attempts, decodes successfully has its caption file written in this run
\* and is not in the failed list.
C18_SequentialRetries ==
    (InSequential /\ mpc = "exit0")
    => \A k \in DOMAIN batch :
         ParsedOk(RunWorker([NewTask(batch[k]) EXCEPT !.pc = "running"], backend[batch[k]]))
         => /\ batch[k] \notin Range(failed)
            /\ CaptionFile(batch[k]) \in DOMAIN captions
            /\ captions[CaptionFile(batch[k])].run = run

\* C20: in concurrent mode, when map_captions_parallel has returned, an
\* image is in failed only if its worker ended in FAILURE, every image whose
\* output the worker decoded has its caption file written in this run, and
\* successful counts exactly those images.
C20_OpaqueCaption ==
    retval.kind = "dict"
    => /\ \A i \in DOMAIN task :
            IF ParsedOk(task[i])
            THEN /\ task[i].img \notin Range(retval.failed)
                 /\ CaptionFile(task[i].img) \in DOMAIN captions
                 /\ captions[CaptionFile(task[i].img)].run = run
            ELSE task[i].img \in Range(retval.failed)
       /\ retval.successful = Cardinality({i \in DOMAIN task : ParsedOk(task[i])})

\* the futures whose result the as_completed loop has consumed
Drained == {i \in DOMAIN task : task[i].pc = "drained"}

\* no value occurs at two positions of the sequence
NoRepeats(q) == \A k, l \in DOMAIN q : q[k] = q[l] => k = l

\* C21: in map_captions_parallel every submitted image is accounted for
\* exactly once: at every point of the result-draining loop successful +
\* len(failed) is the number of results drained so far, successful counts
\* exactly the drained futures with a truthy caption and failed holds exactly
\* the images of the other drained futures, no image twice; when the call
\* returns, successful + len(failed) is the number of input images and no
\* image is twice in the returned failed list.
C21_AccountedOnce ==
    /\ mpc = "pool" =>
         LET good == {i \in Drained : Truthy(task[i].ret.caption)}
         IN  /\ successful + Len(failed) = Cardinality(Drained)
             /\ successful = Cardinality(good)
             /\ Range(failed) = {task[i].img : i \in Drained \ good}
             /\ NoRepeats(failed)
    /\ retval.kind = "dict" =>
         /\ retval.successful + Len(retval.failed) = Len(batch)
         /\ NoRepeats(retval.failed)

\* in the middle of the loop: one future was drained into failed, another
\* has finished with a caption and is not drained yet
C21_Witness ==
    /\ mpc = "pool"
    /\ Cardinality(Drained) = 1
    /\ Len(failed) = 1
    /\ \E i \in DOMAIN task : task[i].pc = "done" /\ Truthy(task[i].ret.caption)


=============================================================================
